---- MODULE Spec2Model ----
(***************************************************************************)
(* Model of the C declaration engine of tcpl-revisited (pdcpl_bcdp):       *)
(*   - the value types of include/pdcpl/cdcl_type_spec.hh and              *)
(*     include/pdcpl/cdcl_dcln_spec.hh and their write()/printer members,  *)
(*   - the declarator operations cdcl_dclr::append / cdcl_dclr::prepend,   *)
(*   - the parse driver src/pdcpl_bcdp/cdcl_parser_impl.{hh,cc}: its       *)
(*     results_ vector, result_indicies_ map, last_error_, location_ and   *)
(*     the insert/result/parse members.                                    *)
(* Text is modelled with TLA+ strings and \o, so that the separators the   *)
(* writers emit are part of what is checked.                               *)
(***************************************************************************)
EXTENDS Integers, Sequences, FiniteSets, TLC

VARIABLES
  \* ---- cdcl_parser_impl private state (cdcl_parser_impl.hh:214-217)
  location_,          \* yy::location, abstracted to a position counter
  last_error_,        \* std::string
  results_,           \* std::vector<cdcl_dcln>
  result_indicies_,   \* std::unordered_map<std::string, std::size_t>
  \* ---- control state of the driver
  pc,                 \* "idle": no parse() running; "parsing": inside parser.parse()
  status,             \* value parser.parse() is going to return (0 ok, 1 failed)
  ret,                \* value the last finished parse() returned: "none", "true", "false"
  syntax_error,       \* <<>> or <<[loc, what]>>: the exception the last insert threw
  inserted,           \* declarations the running/last parse() invocation inserted
  call,               \* the last insert call: [op, done]; done = declarations it appended
  \* ---- a declarator being assembled by semantic actions, and the last text written
  dclr,               \* cdcl_dclr: [iden, specs]
  ops,                \* append/prepend calls applied to dclr since its construction
  out,                \* <<>> or <<[dcl_spec, status, text]>>: the last write of a
                      \* cdcl_dcln or of a cdcl_dcl_spec alone, or
                      \* <<[dcln, status, text]>>: the last write of a stored declaration
  \* ---- what the last result() lookup gave its caller
  looked,             \* <<>> or <<[iden or idx, status, value]>>; status "ok" or "out_of_range"
  \* ---- specifier objects the semantic actions build
  ptrs,               \* <<>> or <<cdcl_ptrs_spec>>: the pointer run being built
  run_quals,          \* qualifiers handed to ptrs.append since its construction
  heap,               \* the cdcl_dclr objects made by std::make_unique, by address 1, 2, ..
  held,               \* the cdcl_param_spec objects: [spec, dclr]; dclr is <<>> for an
                      \* empty shared_ptr and <<address>> otherwise
  params,             \* <<>> or <<cdcl_params_spec>>: [specs, variadic], the list being built
  flagged,            \* whether a constructor argument or variadic(bool) last set the flag to true
  old_value           \* what the last variadic(bool) returned: "none", "true", "false"

vars == <<location_, last_error_, results_, result_indicies_, pc, status, ret,
          syntax_error, inserted, call, dclr, ops, out, looked, ptrs, run_quals, heap,
          held, params, flagged, old_value>>

sessionVars == <<location_, last_error_, results_, result_indicies_, pc, status,
                 ret, syntax_error, inserted, call>>

dclrVars == <<dclr, ops, out>>

builderVars == <<ptrs, run_quals, heap, held, params, flagged, old_value>>

-----------------------------------------------------------------------------
(* Bounds of the model                                                     *)

\* largest number of cdcl_param_spec objects alive at once
MaxHeld == 2
\* largest number of specifiers put on a declarator a parameter holds
MaxNested == 1
\* largest number of parameters appended to one parameter list
MaxParams == 2
\* longest pointer run built by cdcl_ptrs_spec::append
MaxPtrs == 2
\* largest number of built pointer runs put on one declarator
MaxRuns == 1
\* longest cdcl_init_dclrs list handed to insert(dcl_spec, init_dclrs)
MaxListLen == 2
\* largest position the lexer advances location_ to within one parse()
MaxLoc == 2
\* largest number of specifiers put on one declarator
MaxSpecs == 3

-----------------------------------------------------------------------------
(* cdcl_type_spec.hh: enumerations and their printers                      *)

\* enum class cdcl_type
cdcl_type ==
  {"invalid", "gvoid", "gchar", "schar", "uchar", "sint", "uint", "sshort",
   "ushort", "slong", "ulong", "gfloat", "gdouble", "gldouble", "gstruct",
   "genum", "gtype"}

\* enum class cdcl_qual
cdcl_qual == {"invalid", "qnone", "qconst", "qvolatile", "qconst_volatile"}

\* enum class cdcl_storage
cdcl_storage == {"invalid", "st_auto", "st_extern", "st_register", "st_static"}

cdcl_type_printer(type) ==
  CASE type = "invalid"  -> "[invalid type]"
    [] type = "gvoid"    -> "void"
    [] type = "gchar"    -> "char"
    [] type = "schar"    -> "signed char"
    [] type = "uchar"    -> "unsigned char"
    [] type = "sint"     -> "signed int"
    [] type = "uint"     -> "unsigned int"
    [] type = "sshort"   -> "signed short"
    [] type = "ushort"   -> "unsigned short"
    [] type = "slong"    -> "signed long"
    [] type = "ulong"    -> "unsigned long"
    [] type = "gfloat"   -> "float"
    [] type = "gdouble"  -> "double"
    [] type = "gldouble" -> "long double"
    [] type = "genum"    -> "enum"
    [] type = "gstruct"  -> "struct"
    [] type = "gtype"    -> "typedef"

cdcl_qual_printer(qual) ==
  CASE qual = "invalid"         -> "[invalid cv-qualifier]"
    [] qual = "qnone"           -> ""
    [] qual = "qconst"          -> "const"
    [] qual = "qvolatile"       -> "volatile"
    [] qual = "qconst_volatile" -> "const volatile"

cdcl_storage_printer(storage) ==
  CASE storage = "invalid"     -> "[invalid storage qualifier]"
    [] storage = "st_auto"     -> ""
    [] storage = "st_extern"   -> "extern"
    [] storage = "st_register" -> "register"
    [] storage = "st_static"   -> "static"

\* cdcl_type_spec(type, iden)
cdcl_type_spec(type, iden) == [type |-> type, iden |-> iden]

\* cdcl_type_spec::write
cdcl_type_spec_write(spec) ==
  cdcl_type_printer(spec.type)
    \o (IF spec.iden # "" THEN " " \o spec.iden ELSE "")

\* cdcl_qtype_spec(qual, spec)
cdcl_qtype_spec(qual, spec) == [qual |-> qual, spec |-> spec]

\* cdcl_qtype_spec::write
cdcl_qtype_spec_write(qspec) ==
  LET qual == cdcl_qual_printer(qspec.qual)
  IN  (IF qual # "" THEN qual \o " " ELSE "") \o cdcl_type_spec_write(qspec.spec)

-----------------------------------------------------------------------------
(* cdcl_dcln_spec.hh: declaration specifier and declarator specifiers      *)

\* cdcl_dcl_spec(storage, spec)
cdcl_dcl_spec(storage, spec) == [storage |-> storage, spec |-> spec]

\* cdcl_dcl_spec::write that prints the storage text and its space always
cdcl_dcl_spec_write_always_storage(dspec) ==
  cdcl_storage_printer(dspec.storage) \o " " \o cdcl_qtype_spec_write(dspec.spec)

\* cdcl_dcl_spec::write
cdcl_dcl_spec_write(dspec) ==
  LET storage == cdcl_storage_printer(dspec.storage)
  IN  (IF storage # "" THEN storage \o " " ELSE "")
        \o cdcl_qtype_spec_write(dspec.spec)

\* cdcl_array_spec(size)
cdcl_array_spec(size) == [kind |-> "array", size |-> size]

\* cdcl_ptrs_spec(specs)
cdcl_ptrs_spec(specs) == [kind |-> "ptrs", specs |-> specs]

\* cdcl_ptrs_spec::append: specs_.push_back(qual)
ptrs_spec_append(spec, qual) == [spec EXCEPT !.specs = Append(@, qual)]

\* cdcl_param_spec: dclr holds <<>> for an empty shared_ptr, <<d>> otherwise
cdcl_param_spec(spec, pdclr) == [spec |-> spec, dclr |-> pdclr]

\* cdcl_params_spec(specs, variadic)
cdcl_params_spec(specs, variadic) ==
  [kind |-> "params", specs |-> specs, variadic |-> variadic]

\* cdcl_array_spec::write that prints the size of an unsized array too
cdcl_array_spec_write_zero(spec) == "array[" \o ToString(spec.size) \o "]"

\* cdcl_array_spec::write
cdcl_array_spec_write(spec) ==
  "array[" \o (IF spec.size # 0 THEN ToString(spec.size) ELSE "") \o "]"

\* cdcl_dclr_spec::printer::operator()(const cdcl_array_spec&)
printer_array(spec) == cdcl_array_spec_write(spec) \o " of"

\* a switch that prints every pointer of the run without its qualifier
ptr_phrase_unqualified(qual) == "pointer"

\* the switch of cdcl_dclr_spec::printer::operator()(const cdcl_ptrs_spec&)
ptr_phrase(qual) ==
  CASE qual = "qnone"           -> "pointer"
    [] qual = "qconst"          -> "const pointer"
    [] qual = "qvolatile"       -> "volatile pointer"
    [] qual = "qconst_volatile" -> "const volatile pointer"

\* the default: branch of that switch throws std::runtime_error
ptrs_throws(spec) ==
  \E i \in 1..Len(spec.specs) :
    spec.specs[i] \notin {"qnone", "qconst", "qvolatile", "qconst_volatile"}

RECURSIVE printer_ptrs_from(_, _)
printer_ptrs_from(specs, i) ==
  IF i > Len(specs) THEN ""
  ELSE (IF i - 1 # 0 THEN " " ELSE "")
         \o ptr_phrase(specs[i]) \o " to"
         \o printer_ptrs_from(specs, i + 1)

\* cdcl_dclr_spec::printer::operator()(const cdcl_ptrs_spec&)
printer_ptrs(spec) == printer_ptrs_from(spec.specs, 1)

RECURSIVE printer_params_from(_, _), cdcl_param_spec_write(_), cdcl_dclr_write(_),
          cdcl_dclr_write_from(_, _), printer(_)

\* cdcl_dclr_spec::printer::operator()(const cdcl_params_spec&): the loop
printer_params_from(specs, i) ==
  IF i > Len(specs) THEN ""
  ELSE cdcl_param_spec_write(specs[i])
         \o (IF Len(specs) - (i - 1) > 1 THEN ", " ELSE "")
         \o printer_params_from(specs, i + 1)

\* cdcl_dclr_spec::printer::operator()(const cdcl_params_spec&)
printer_params(spec) ==
  "function (" \o printer_params_from(spec.specs, 1)
    \o (IF spec.variadic THEN ", ..." ELSE "")
    \o ") returning "

\* std::visit(cdcl_dclr_spec::printer{}, spec)
printer(spec) ==
  CASE spec.kind = "array"  -> printer_array(spec)
    [] spec.kind = "ptrs"   -> printer_ptrs(spec)
    [] spec.kind = "params" -> printer_params(spec)

\* cdcl_param_spec::write
cdcl_param_spec_write(param) ==
  (IF param.dclr # <<>> THEN cdcl_dclr_write(param.dclr[1]) ELSE "")
    \o cdcl_qtype_spec_write(param.spec)

\* cdcl_dclr::write: the loop over specs_
cdcl_dclr_write_from(specs, i) ==
  IF i > Len(specs) THEN ""
  ELSE (IF i - 1 # 0 THEN " " ELSE "")
         \o printer(specs[i])
         \o cdcl_dclr_write_from(specs, i + 1)

\* cdcl_dclr::write that prints the space after the colon without looking at specs_
cdcl_dclr_write_colon_space(d) ==
  (IF d.iden # "" THEN d.iden \o ": " ELSE "") \o cdcl_dclr_write_from(d.specs, 1)

\* cdcl_dclr::write that prints `_:` for a declarator without identifier
cdcl_dclr_write_placeholder(d) ==
  (IF d.iden # "" THEN d.iden ELSE "_")
    \o ":" \o (IF Len(d.specs) # 0 THEN " " ELSE "")
    \o cdcl_dclr_write_from(d.specs, 1)

\* cdcl_dclr::write
cdcl_dclr_write(d) ==
  (IF d.iden # ""
     THEN d.iden \o ":" \o (IF Len(d.specs) # 0 THEN " " ELSE "")
     ELSE "")
    \o cdcl_dclr_write_from(d.specs, 1)

\* whether writing the declarator ends in the printer's std::runtime_error
RECURSIVE cdcl_dclr_throws(_)
cdcl_dclr_throws(d) ==
  \E i \in 1..Len(d.specs) :
    \/ d.specs[i].kind = "ptrs" /\ ptrs_throws(d.specs[i])
    \/ /\ d.specs[i].kind = "params"
       /\ \E j \in 1..Len(d.specs[i].specs) :
            /\ d.specs[i].specs[j].dclr # <<>>
            /\ cdcl_dclr_throws(d.specs[i].specs[j].dclr[1])

\* cdcl_dclr(iden)
cdcl_dclr(iden) == [iden |-> iden, specs |-> <<>>]

\* append that inserts at the front of specs_, as prepend does
append_at_front(d, spec) == [d EXCEPT !.specs = <<spec>> \o @]

\* cdcl_dclr::append: specs_.push_back(spec)
append(d, spec) == [d EXCEPT !.specs = Append(@, spec)]

\* prepend that puts the specifier behind the ones the declarator holds
prepend_at_back(d, spec) == [d EXCEPT !.specs = Append(@, spec)]

\* cdcl_dclr::prepend: specs_.insert(specs_.begin(), spec)
prepend(d, spec) == [d EXCEPT !.specs = <<spec>> \o @]

\* cdcl_dcln(dcl_spec, dclr)
cdcl_dcln(dspec, d) == [dcl_spec |-> dspec, dclr |-> d]

\* cdcl_dcln::write
cdcl_dcln_write(dcln) ==
  cdcl_dclr_write(dcln.dclr) \o " " \o cdcl_dcl_spec_write(dcln.dcl_spec)

-----------------------------------------------------------------------------
(* Values the semantic actions are run on                                  *)

\* int
SignedInt == cdcl_dcl_spec("st_auto", cdcl_qtype_spec("qnone", cdcl_type_spec("sint", "")))

\* static const char
StaticConstChar ==
  cdcl_dcl_spec("st_static", cdcl_qtype_spec("qconst", cdcl_type_spec("gchar", "")))

DclSpecs == {SignedInt, StaticConstChar}

\* type identifiers: none, or the tag of a struct/enum or the typedef name
TypeIdens == {"", "my_struct"}

\* every cdcl_dcl_spec over the three enumerations and the type identifiers
AllDclSpecs ==
  {cdcl_dcl_spec(storage, cdcl_qtype_spec(qual, cdcl_type_spec(type, iden))) :
     storage \in cdcl_storage, qual \in cdcl_qual, type \in cdcl_type,
     iden \in TypeIdens}

\* [3], [], *, *const *, (int, char), (int, ...)
Array3 == cdcl_array_spec(3)
ArrayUnsized == cdcl_array_spec(0)
Ptr == cdcl_ptrs_spec(<<"qnone">>)
PtrConstPtr == cdcl_ptrs_spec(<<"qconst", "qnone">>)
ParamInt == cdcl_param_spec(cdcl_qtype_spec("qnone", cdcl_type_spec("sint", "")), <<>>)
ParamChar == cdcl_param_spec(cdcl_qtype_spec("qnone", cdcl_type_spec("gchar", "")), <<>>)
ParamsIntChar == cdcl_params_spec(<<ParamInt, ParamChar>>, FALSE)
ParamsIntVariadic == cdcl_params_spec(<<ParamInt>>, TRUE)
\* *volatile *const volatile, (int)
PtrVolatilePtrCV == cdcl_ptrs_spec(<<"qvolatile", "qconst_volatile">>)
ParamsInt == cdcl_params_spec(<<ParamInt>>, FALSE)

DclrSpecs ==
  {Array3, ArrayUnsized, Ptr, PtrConstPtr, PtrVolatilePtrCV, ParamsInt,
   ParamsIntChar, ParamsIntVariadic}

\* identifiers; "" is the identifier of an abstract declarator
Idens == {"", "x", "y"}

\* cdcl_dcl_spec(): storage invalid over cdcl_qtype_spec(): qualifier invalid
\* over cdcl_type_spec(): type invalid, no identifier
DefaultDclSpec ==
  cdcl_dcl_spec("invalid", cdcl_qtype_spec("invalid", cdcl_type_spec("invalid", "")))

\* int, the default-constructed specifier, and int with one tag invalid
SentinelDclSpecs ==
  {SignedInt, DefaultDclSpec,
   cdcl_dcl_spec("invalid", cdcl_qtype_spec("qnone", cdcl_type_spec("sint", ""))),
   cdcl_dcl_spec("st_auto", cdcl_qtype_spec("invalid", cdcl_type_spec("sint", ""))),
   cdcl_dcl_spec("st_auto", cdcl_qtype_spec("qnone", cdcl_type_spec("invalid", "")))}

\* pointer runs that hold cdcl_qual::invalid
PtrInvalid == cdcl_ptrs_spec(<<"invalid">>)
PtrConstPtrInvalid == cdcl_ptrs_spec(<<"qconst", "invalid">>)

SentinelPtrs == {Ptr, PtrInvalid, PtrConstPtrInvalid}

\* qualified types of parameters: int, char
ParamSpecs ==
  {cdcl_qtype_spec("qnone", cdcl_type_spec("sint", "")),
   cdcl_qtype_spec("qnone", cdcl_type_spec("gchar", ""))}

\* declarators of parameters: the abstract *, and x
ParamDclrs == {prepend(cdcl_dclr(""), Ptr), cdcl_dclr("x")}

\* parameters: int, char, the abstract `int *`, and `int x`
ParamValues ==
  {cdcl_param_spec(spec, <<>>) : spec \in ParamSpecs}
    \cup {cdcl_param_spec(cdcl_qtype_spec("qnone", cdcl_type_spec("sint", "")), <<d>>) :
            d \in ParamDclrs}

\* identifiers of the declarators the semantic actions assemble
DclrIdens == Idens \cup {"f"}

\* declarators handed to insert: each identifier plain, and x as a pointer too
SessionDclrs == {cdcl_dclr(iden) : iden \in Idens} \cup {append(cdcl_dclr("x"), Ptr)}

\* cdcl_init_dclr is std::variant<cdcl_dclr>: alternative 0 is its only alternative
cdcl_init_dclr(d) == [index |-> 0, value |-> d]

InitDclrs == {cdcl_init_dclr(d) : d \in SessionDclrs}

\* a cdcl_init_dclr that holds no cdcl_dclr (valueless_by_exception): index()
\* is variant_npos, written -1, and holds_alternative<cdcl_dclr> is false
ValuelessInitDclr == [index |-> -1]

RECURSIVE SeqsUpTo(_, _)
SeqsUpTo(S, n) ==
  IF n = 0 THEN {<<>>}
  ELSE LET shorter == SeqsUpTo(S, n - 1)
       IN  shorter \cup {Append(s, e) : s \in {t \in shorter : Len(t) = n - 1}, e \in S}

\* cdcl_init_dclrs values
InitDclrLists == SeqsUpTo(InitDclrs, MaxListLen)

-----------------------------------------------------------------------------
(* cdcl_parser_impl: the session                                           *)

\* a syntax_error thrown with a default location instead of location_
throw_syntax_error_nowhere(loc, what) == <<[loc |-> 0, what |-> what]>>

\* yy::cdcl_parser::syntax_error{location_, last_error_}
throw_syntax_error(loc, what) == <<[loc |-> loc, what |-> what]>>

\* the members insert reads and writes, as one value
session == [results_ |-> results_, result_indicies_ |-> result_indicies_,
            last_error_ |-> last_error_, syntax_error |-> <<>>]

\* the last two statements of insert: results_.push_back(std::move(dcln));
\* result_indicies_[iden] = results_.size() - 1;
push_back_indexed(s, dcln) ==
  LET pushed == Append(s.results_, dcln)
  IN  [s EXCEPT !.results_ = pushed,
                !.result_indicies_ =
                  [k \in DOMAIN s.result_indicies_ \cup {dcln.dclr.iden} |->
                     IF k = dcln.dclr.iden THEN Len(pushed) - 1
                     ELSE s.result_indicies_[k]]]

\* insert without the result_indicies_.find check: a redeclared identifier is
\* pushed again and its index overwritten
insert_no_find(s, loc, dcl_spec, init_dclr) ==
  IF init_dclr.index # 0
    THEN [s EXCEPT !.last_error_ = "init_dclr only support C declarators",
                   !.syntax_error =
                     throw_syntax_error(loc, "init_dclr only support C declarators")]
  ELSE
  LET dcln == cdcl_dcln(dcl_spec, init_dclr.value)
  IN  IF dcln.dclr.iden = ""
        THEN [s EXCEPT !.last_error_ = "dcln is missing identifier",
                       !.syntax_error =
                         throw_syntax_error(loc, "dcln is missing identifier")]
      ELSE push_back_indexed(s, dcln)

\* insert without the iden.empty() check: an abstract declarator is stored
insert_no_empty(s, loc, dcl_spec, init_dclr) ==
  IF init_dclr.index # 0
    THEN [s EXCEPT !.last_error_ = "init_dclr only support C declarators",
                   !.syntax_error =
                     throw_syntax_error(loc, "init_dclr only support C declarators")]
  ELSE
  LET dcln == cdcl_dcln(dcl_spec, init_dclr.value)
      iden == dcln.dclr.iden
  IN  IF iden \in DOMAIN s.result_indicies_
        THEN [s EXCEPT !.last_error_ = "identifier " \o iden \o " redeclared",
                       !.syntax_error =
                         throw_syntax_error(loc, "identifier " \o iden \o " redeclared")]
      ELSE push_back_indexed(s, dcln)

\* insert that puts the declaration at the front of results_
insert_push_front(s, loc, dcl_spec, init_dclr) ==
  IF init_dclr.index # 0
    THEN [s EXCEPT !.last_error_ = "init_dclr only support C declarators",
                   !.syntax_error =
                     throw_syntax_error(loc, "init_dclr only support C declarators")]
  ELSE
  LET dcln == cdcl_dcln(dcl_spec, init_dclr.value)
      iden == dcln.dclr.iden
  IN  IF iden = ""
        THEN [s EXCEPT !.last_error_ = "dcln is missing identifier",
                       !.syntax_error =
                         throw_syntax_error(loc, "dcln is missing identifier")]
      ELSE IF iden \in DOMAIN s.result_indicies_
        THEN [s EXCEPT !.last_error_ = "identifier " \o iden \o " redeclared",
                       !.syntax_error =
                         throw_syntax_error(loc, "identifier " \o iden \o " redeclared")]
      ELSE [s EXCEPT !.results_ = <<dcln>> \o @,
                     !.result_indicies_ =
                       [k \in DOMAIN s.result_indicies_ \cup {iden} |->
                          IF k = iden THEN Len(s.results_)
                          ELSE s.result_indicies_[k]]]

\* insert that reports a redeclared identifier but has already replaced the
\* stored declaration by the new one
insert_replaces(s, loc, dcl_spec, init_dclr) ==
  IF init_dclr.index # 0
    THEN [s EXCEPT !.last_error_ = "init_dclr only support C declarators",
                   !.syntax_error =
                     throw_syntax_error(loc, "init_dclr only support C declarators")]
  ELSE
  LET dcln == cdcl_dcln(dcl_spec, init_dclr.value)
      iden == dcln.dclr.iden
  IN  IF iden = ""
        THEN [s EXCEPT !.last_error_ = "dcln is missing identifier",
                       !.syntax_error =
                         throw_syntax_error(loc, "dcln is missing identifier")]
      ELSE IF iden \in DOMAIN s.result_indicies_
        THEN [s EXCEPT !.results_[s.result_indicies_[iden] + 1] = dcln,
                       !.last_error_ = "identifier " \o iden \o " redeclared",
                       !.syntax_error =
                         throw_syntax_error(loc, "identifier " \o iden \o " redeclared")]
      ELSE push_back_indexed(s, dcln)

\* insert that indexes the new declaration with results_.size(), one past
\* its position
insert_index_size(s, loc, dcl_spec, init_dclr) ==
  IF init_dclr.index # 0
    THEN [s EXCEPT !.last_error_ = "init_dclr only support C declarators",
                   !.syntax_error =
                     throw_syntax_error(loc, "init_dclr only support C declarators")]
  ELSE
    LET dcln == cdcl_dcln(dcl_spec, init_dclr.value)
        iden == dcln.dclr.iden
    IN  IF iden = ""
          THEN [s EXCEPT !.last_error_ = "dcln is missing identifier",
                         !.syntax_error =
                           throw_syntax_error(loc, "dcln is missing identifier")]
        ELSE IF iden \in DOMAIN s.result_indicies_
          THEN [s EXCEPT !.last_error_ = "identifier " \o iden \o " redeclared",
                         !.syntax_error =
                           throw_syntax_error(loc, "identifier " \o iden \o " redeclared")]
        ELSE [s EXCEPT !.results_ = Append(@, dcln),
                       !.result_indicies_ =
                         [k \in DOMAIN s.result_indicies_ \cup {iden} |->
                            IF k = iden THEN Len(s.results_) + 1
                            ELSE s.result_indicies_[k]]]

\* cdcl_parser_impl::insert(const cdcl_dcl_spec&, const cdcl_init_dclr&)
insert(s, loc, dcl_spec, init_dclr) ==
  IF init_dclr.index # 0
    THEN [s EXCEPT !.last_error_ = "init_dclr only support C declarators",
                   !.syntax_error =
                     throw_syntax_error(loc, "init_dclr only support C declarators")]
  ELSE
    LET dcln == cdcl_dcln(dcl_spec, init_dclr.value)
        iden == dcln.dclr.iden
    IN  IF iden = ""
          THEN [s EXCEPT !.last_error_ = "dcln is missing identifier",
                         !.syntax_error =
                           throw_syntax_error(loc, "dcln is missing identifier")]
        ELSE IF iden \in DOMAIN s.result_indicies_
          THEN [s EXCEPT !.last_error_ = "identifier " \o iden \o " redeclared",
                         !.syntax_error =
                           throw_syntax_error(loc, "identifier " \o iden \o " redeclared")]
        ELSE push_back_indexed(s, dcln)

\* the list insert with a loop that goes on after a failed insert and reports
\* the last failure
RECURSIVE insert_list_keeps_going_from(_, _, _, _, _, _)
insert_list_keeps_going_from(s, loc, dcl_spec, init_dclrs, i, thrown) ==
  IF i > Len(init_dclrs) THEN [s EXCEPT !.syntax_error = thrown]
  ELSE LET s1 == insert([s EXCEPT !.syntax_error = <<>>], loc, dcl_spec, init_dclrs[i])
       IN  insert_list_keeps_going_from(
             s1, loc, dcl_spec, init_dclrs, i + 1,
             IF s1.syntax_error # <<>> THEN s1.syntax_error ELSE thrown)

insert_list_keeps_going(s, loc, dcl_spec, init_dclrs) ==
  insert_list_keeps_going_from(s, loc, dcl_spec, init_dclrs, 1, <<>>)

\* the list insert with a loop that runs from the last declarator to the first
RECURSIVE insert_list_reversed_from(_, _, _, _, _)
insert_list_reversed_from(s, loc, dcl_spec, init_dclrs, i) ==
  IF i < 1 THEN s
  ELSE LET s1 == insert(s, loc, dcl_spec, init_dclrs[i])
       IN  IF s1.syntax_error # <<>> THEN s1
           ELSE insert_list_reversed_from(s1, loc, dcl_spec, init_dclrs, i - 1)

insert_list_reversed(s, loc, dcl_spec, init_dclrs) ==
  insert_list_reversed_from(s, loc, dcl_spec, init_dclrs, Len(init_dclrs))

\* cdcl_parser_impl::insert(const cdcl_dcl_spec&, const cdcl_init_dclrs&): the
\* range-for loop; an exception thrown by insert leaves the loop
RECURSIVE insert_list_from(_, _, _, _, _)
insert_list_from(s, loc, dcl_spec, init_dclrs, i) ==
  IF i > Len(init_dclrs) THEN s
  ELSE LET s1 == insert(s, loc, dcl_spec, init_dclrs[i])
       IN  IF s1.syntax_error # <<>> THEN s1
           ELSE insert_list_from(s1, loc, dcl_spec, init_dclrs, i + 1)

insert_list(s, loc, dcl_spec, init_dclrs) ==
  insert_list_from(s, loc, dcl_spec, init_dclrs, 1)

\* cdcl_parser_impl::n_results
n_results == Len(results_)

\* cdcl_parser_impl::results_contain
results_contain(iden) == iden \in DOMAIN result_indicies_

\* cdcl_parser_impl::result(const std::string&), on given members
result_in(results, indices, iden) == results[indices[iden] + 1]

\* cdcl_parser_impl::result(const std::string&)
result(iden) == result_in(results_, result_indicies_, iden)

\* cdcl_parser_impl::result(std::size_t)
result_at(idx) == results_[idx + 1]

\* result(iden) through result_indicies_[iden]: operator[] puts a missing
\* identifier into the map with index 0
result_call_subscript(iden) ==
  LET indices == [k \in DOMAIN result_indicies_ \cup {iden} |->
                    IF k \in DOMAIN result_indicies_ THEN result_indicies_[k] ELSE 0]
  IN  [results_ |-> results_, result_indicies_ |-> indices,
       looked |-> IF indices[iden] < Len(results_)
                    THEN <<[iden |-> iden, status |-> "ok",
                            value |-> results_[indices[iden] + 1]]>>
                    ELSE <<[iden |-> iden, status |-> "out_of_range"]>>]

\* a call of result(const std::string&): the members after it and what the
\* caller gets; result_indicies_.at(iden) throws std::out_of_range
result_call(iden) ==
  [results_ |-> results_, result_indicies_ |-> result_indicies_,
   looked |-> IF iden \in DOMAIN result_indicies_
                THEN <<[iden |-> iden, status |-> "ok", value |-> result(iden)]>>
                ELSE <<[iden |-> iden, status |-> "out_of_range"]>>]

\* a call of result(std::size_t): results_.at(idx) throws std::out_of_range
result_at_call(idx) ==
  [results_ |-> results_, result_indicies_ |-> result_indicies_,
   looked |-> IF idx < Len(results_)
                THEN <<[idx |-> idx, status |-> "ok", value |-> result_at(idx)]>>
                ELSE <<[idx |-> idx, status |-> "out_of_range"]>>]

\* messages of the lexer setup/cleanup and of the grammar's own error report
LexSetupError == "error opening input"
LexCleanupError == "error closing input"
GrammarError == "syntax error"

-----------------------------------------------------------------------------
(* Actions of the parse driver                                             *)

\* parse without the statement last_error_ = "": the message of the parse
\* before stays
parse_begin_no_reset(setup_ok) ==
  /\ pc = "idle"
  /\ location_' = 0
  /\ syntax_error' = <<>>
  /\ inserted' = <<>>
  /\ call' = [op |-> "parse", done |-> 0]
  /\ status' = 0
  /\ IF setup_ok
       THEN /\ last_error_' = last_error_
            /\ pc' = "parsing"
            /\ ret' = "none"
       ELSE /\ last_error_' = LexSetupError
            /\ pc' = "idle"
            /\ ret' = "false"
  /\ UNCHANGED <<results_, result_indicies_, dclrVars, looked, builderVars>>

\* cdcl_parser_impl::parse up to the call of parser.parse()
parse_begin(setup_ok) ==
  /\ pc = "idle"
  /\ location_' = 0
  /\ syntax_error' = <<>>
  /\ inserted' = <<>>
  /\ call' = [op |-> "parse", done |-> 0]
  /\ status' = 0
  /\ IF setup_ok
       THEN /\ last_error_' = ""
            /\ pc' = "parsing"
            /\ ret' = "none"
       ELSE /\ last_error_' = LexSetupError
            /\ pc' = "idle"
            /\ ret' = "false"
  /\ UNCHANGED <<results_, result_indicies_, dclrVars, looked, builderVars>>

\* yylex: the lexer advances the location while it reads the input
yylex ==
  /\ pc = "parsing"
  /\ status = 0
  /\ location_ < MaxLoc
  /\ location_' = location_ + 1
  /\ UNCHANGED <<last_error_, results_, result_indicies_, pc, status, ret,
                 syntax_error, inserted, call, dclrVars, looked, builderVars>>

\* what a call of insert from a grammar reduction leaves behind: the new
\* members, and a thrown syntax_error ends parser.parse() with status 1
Reduced(op, s) ==
  /\ results_' = s.results_
  /\ result_indicies_' = s.result_indicies_
  /\ last_error_' = s.last_error_
  /\ syntax_error' = s.syntax_error
  /\ status' = IF s.syntax_error # <<>> THEN 1 ELSE 0
  /\ inserted' = inserted \o SubSeq(s.results_, Len(results_) + 1, Len(s.results_))
  /\ call' = [op |-> op, done |-> Len(s.results_) - Len(results_)]
  /\ UNCHANGED <<location_, pc, ret, dclrVars, looked, builderVars>>

\* a reduction calls insert(dcl_spec, init_dclr)
Insert(dcl_spec, init_dclr) ==
  /\ pc = "parsing"
  /\ status = 0
  /\ Reduced("insert", insert(session, location_, dcl_spec, init_dclr))

\* a reduction calls insert(dcl_spec, init_dclrs)
InsertList(dcl_spec, init_dclrs) ==
  /\ pc = "parsing"
  /\ status = 0
  /\ Reduced("insert_list", insert_list(session, location_, dcl_spec, init_dclrs))

\* the grammar engine rejects the input itself
yy_error ==
  /\ pc = "parsing"
  /\ status = 0
  /\ status' = 1
  /\ last_error_' = GrammarError
  /\ UNCHANGED <<location_, results_, result_indicies_, pc, ret, syntax_error,
                 inserted, call, dclrVars, looked, builderVars>>

\* cdcl_parser_impl::parse from the return of parser.parse()
parse_end(cleanup_ok) ==
  /\ pc = "parsing"
  /\ pc' = "idle"
  /\ IF cleanup_ok
       THEN /\ ret' = IF status = 0 THEN "true" ELSE "false"
            /\ UNCHANGED last_error_
       ELSE /\ ret' = "false"
            /\ last_error_' = LexCleanupError
  /\ UNCHANGED <<location_, results_, result_indicies_, status, syntax_error,
                 inserted, call, dclrVars, looked, builderVars>>

\* what a lookup leaves behind
Looked(s) ==
  /\ results_' = s.results_
  /\ result_indicies_' = s.result_indicies_
  /\ looked' = s.looked
  /\ UNCHANGED <<location_, last_error_, pc, status, ret, syntax_error, inserted,
                 call, dclrVars, builderVars>>

\* the client calls result(iden)
Result(iden) == Looked(result_call(iden))

\* the client calls result(idx)
ResultAt(idx) == Looked(result_at_call(idx))

\* a write of a stored declaration that moves the specifiers out of its
\* declarator while it visits them
result_write_moving(idx) ==
  /\ pc = "idle"
  /\ idx < Len(results_)
  /\ out' = <<[dcln |-> result_at(idx), status |-> "ok",
               text |-> cdcl_dcln_write(result_at(idx))]>>
  /\ results_' = [results_ EXCEPT ![idx + 1].dclr.specs = <<>>]
  /\ UNCHANGED <<location_, last_error_, result_indicies_, pc, status, ret,
                 syntax_error, inserted, call, dclr, ops, looked, builderVars>>

\* the client writes a stored declaration: out << result(idx)
result_write(idx) ==
  /\ pc = "idle"
  /\ idx < Len(results_)
  /\ out' = <<[dcln |-> result_at(idx), status |-> "ok",
               text |-> cdcl_dcln_write(result_at(idx))]>>
  /\ UNCHANGED <<sessionVars, dclr, ops, looked, builderVars>>

-----------------------------------------------------------------------------
(* Actions on the declarator under construction                            *)

\* cdcl_dclr(iden): a fresh declarator
dclr_ctor(iden) ==
  /\ dclr' = cdcl_dclr(iden)
  /\ ops' = <<>>
  /\ out' = <<>>
  /\ UNCHANGED <<sessionVars, looked, builderVars>>

\* dclr.append(spec)
dclr_append(spec) ==
  /\ Len(dclr.specs) < MaxSpecs
  /\ dclr' = append(dclr, spec)
  /\ ops' = Append(ops, [op |-> "append", spec |-> spec])
  /\ out' = <<>>
  /\ UNCHANGED <<sessionVars, looked, builderVars>>

\* dclr.prepend(spec)
dclr_prepend(spec) ==
  /\ Len(dclr.specs) < MaxSpecs
  /\ dclr' = prepend(dclr, spec)
  /\ ops' = Append(ops, [op |-> "prepend", spec |-> spec])
  /\ out' = <<>>
  /\ UNCHANGED <<sessionVars, looked, builderVars>>

\* a write that throws for an invalid tag of the declaration specifier too
dcln_write_throws_on_sentinel(dcl_spec) ==
  /\ out' = IF \/ cdcl_dclr_throws(dclr)
               \/ "invalid" \in {dcl_spec.storage, dcl_spec.spec.qual,
                                 dcl_spec.spec.spec.type}
              THEN <<[dcl_spec |-> dcl_spec, status |-> "runtime_error",
                      text |-> "invalid pointer specification"]>>
              ELSE <<[dcl_spec |-> dcl_spec, status |-> "ok",
                      text |-> cdcl_dcln_write(cdcl_dcln(dcl_spec, dclr))]>>
  /\ UNCHANGED <<dclr, ops, sessionVars, looked, builderVars>>

\* out << cdcl_dcln{dcl_spec, dclr}
dcln_write(dcl_spec) ==
  /\ out' = IF cdcl_dclr_throws(dclr)
              THEN <<[dcl_spec |-> dcl_spec, status |-> "runtime_error",
                      text |-> "invalid pointer specification"]>>
              ELSE <<[dcl_spec |-> dcl_spec, status |-> "ok",
                      text |-> cdcl_dcln_write(cdcl_dcln(dcl_spec, dclr))]>>
  /\ UNCHANGED <<dclr, ops, sessionVars, looked, builderVars>>

\* out << dcl_spec
dcl_spec_write(dcl_spec) ==
  /\ out' = <<[dcl_spec |-> dcl_spec, status |-> "ok",
               text |-> cdcl_dcl_spec_write(dcl_spec)]>>
  /\ UNCHANGED <<dclr, ops, sessionVars, looked, builderVars>>

-----------------------------------------------------------------------------
(* Actions on the pointer run under construction                           *)

\* cdcl_ptrs_spec(): specs_{}
ptrs_ctor ==
  /\ ptrs' = <<cdcl_ptrs_spec(<<>>)>>
  /\ run_quals' = <<>>
  /\ UNCHANGED <<sessionVars, dclrVars, looked, heap, held, params, flagged,
                 old_value>>

\* ptrs.append(qual), once per `*` of the source
ptrs_append(qual) ==
  /\ ptrs # <<>>
  /\ Len(ptrs[1].specs) < MaxPtrs
  /\ ptrs' = <<ptrs_spec_append(ptrs[1], qual)>>
  /\ run_quals' = Append(run_quals, qual)
  /\ UNCHANGED <<sessionVars, dclrVars, looked, heap, held, params, flagged,
                 old_value>>

\* dclr.prepend(ptrs): the built run is put on the declarator
dclr_prepend_ptrs ==
  /\ ptrs # <<>>
  /\ Len(dclr.specs) < MaxRuns
  /\ dclr_prepend(ptrs[1])

-----------------------------------------------------------------------------
(* Actions on parameter objects                                            *)

\* the members of cdcl_param_spec after its copy: spec_ copied, dclr_ a
\* std::shared_ptr copy, which holds the address the original holds
param_copied(param) == param

\* cdcl_param_spec(spec): dclr_{}
param_ctor(spec) ==
  /\ Len(held) < MaxHeld
  /\ held' = Append(held, [spec |-> spec, dclr |-> <<>>])
  /\ UNCHANGED <<sessionVars, dclrVars, looked, ptrs, run_quals, heap, params, flagged,
                 old_value>>

\* cdcl_param_spec(spec, dclr): dclr_{std::make_unique<cdcl_dclr>(dclr)}
param_ctor_dclr(spec, d) ==
  /\ Len(held) < MaxHeld
  /\ heap' = Append(heap, d)
  /\ held' = Append(held, [spec |-> spec, dclr |-> <<Len(heap) + 1>>])
  /\ UNCHANGED <<sessionVars, dclrVars, looked, ptrs, run_quals, params, flagged,
                 old_value>>

\* cdcl_param_spec copy{held[i]}: the implicit copy constructor, the one
\* cdcl_params_spec::append(const cdcl_param_spec&) runs in push_back
param_copy(i) ==
  /\ Len(held) < MaxHeld
  /\ held' = Append(held, param_copied(held[i]))
  /\ UNCHANGED <<sessionVars, dclrVars, looked, ptrs, run_quals, heap, params,
                 flagged, old_value>>

\* held[i].dclr()->append(spec): dclr() hands out the shared_ptr, whose
\* cdcl_dclr is not const
param_dclr_append(i, spec) ==
  /\ held[i].dclr # <<>>
  /\ Len(heap[held[i].dclr[1]].specs) < MaxNested
  /\ heap' = [heap EXCEPT ![held[i].dclr[1]] = append(@, spec)]
  /\ UNCHANGED <<sessionVars, dclrVars, looked, ptrs, run_quals, held, params, flagged,
                 old_value>>

-----------------------------------------------------------------------------
(* Actions on the parameter list under construction                        *)

\* a bool as old_value holds it
BoolText(b) == IF b THEN "true" ELSE "false"

\* cdcl_params_spec() = default: specs_ is empty; variadic_ has no
\* initializer, so the default-initialized object holds either value
params_ctor_default(indeterminate) ==
  /\ params' = <<[specs |-> <<>>, variadic |-> indeterminate]>>
  /\ flagged' = FALSE
  /\ old_value' = "none"
  /\ out' = <<>>
  /\ UNCHANGED <<sessionVars, dclr, ops, looked, ptrs, run_quals, heap, held>>

\* cdcl_params_spec({}, variadic)
params_ctor(variadic) ==
  /\ params' = <<[specs |-> <<>>, variadic |-> variadic]>>
  /\ flagged' = variadic
  /\ old_value' = "none"
  /\ out' = <<>>
  /\ UNCHANGED <<sessionVars, dclr, ops, looked, ptrs, run_quals, heap, held>>

\* params.append(param): specs_.push_back(param)
params_append(param) ==
  /\ params # <<>>
  /\ Len(params[1].specs) < MaxParams
  /\ params' = <<[params[1] EXCEPT !.specs = Append(@, param)]>>
  /\ out' = <<>>
  /\ UNCHANGED <<sessionVars, dclr, ops, looked, ptrs, run_quals, heap, held, flagged,
                 old_value>>

\* params.variadic(value): returns the old flag and stores the new one
params_variadic(value) ==
  /\ params # <<>>
  /\ old_value' = BoolText(params[1].variadic)
  /\ params' = <<[params[1] EXCEPT !.variadic = value]>>
  /\ flagged' = value
  /\ out' = <<>>
  /\ UNCHANGED <<sessionVars, dclr, ops, looked, ptrs, run_quals, heap, held>>

\* the printer applied to the parameter list
params_write ==
  /\ params # <<>>
  /\ out' = <<[params |-> params[1], status |-> "ok",
               text |-> printer_params(
                          cdcl_params_spec(params[1].specs, params[1].variadic))]>>
  /\ UNCHANGED <<sessionVars, dclr, ops, looked, builderVars>>

\* out << param
param_write(param) ==
  /\ out' = <<[param |-> param, status |-> "ok", text |-> cdcl_param_spec_write(param)]>>
  /\ UNCHANGED <<sessionVars, dclr, ops, looked, builderVars>>

-----------------------------------------------------------------------------
(* Specifications                                                          *)

Init ==
  /\ location_ = 0
  /\ last_error_ = ""
  /\ results_ = <<>>
  /\ result_indicies_ = <<>>
  /\ pc = "idle"
  /\ status = 0
  /\ ret = "none"
  /\ syntax_error = <<>>
  /\ inserted = <<>>
  /\ call = [op |-> "none", done |-> 0]
  /\ dclr = cdcl_dclr("")
  /\ ops = <<>>
  /\ out = <<>>
  /\ looked = <<>>
  /\ ptrs = <<>>
  /\ run_quals = <<>>
  /\ heap = <<>>
  /\ held = <<>>
  /\ params = <<>>
  /\ flagged = FALSE
  /\ old_value = "none"

\* the parse driver
Next ==
  \/ \E setup_ok \in BOOLEAN : parse_begin(setup_ok)
  \/ yylex
  \/ \E d \in DclSpecs, c \in InitDclrs : Insert(d, c)
  \/ \E d \in DclSpecs : Insert(d, ValuelessInitDclr)
  \/ \E d \in DclSpecs, cs \in InitDclrLists : InsertList(d, cs)
  \/ yy_error
  \/ \E cleanup_ok \in BOOLEAN : parse_end(cleanup_ok)

Spec == Init /\ [][Next]_vars

\* the parse driver and a client that looks declarations up
NextLookup ==
  \/ Next
  \/ \E iden \in Idens : Result(iden)
  \/ \E idx \in 0..(Len(results_) + 1) : ResultAt(idx)

SpecLookup == Init /\ [][NextLookup]_vars

\* the parse driver and a client that writes the stored declarations
NextRender ==
  \/ Next
  \/ \E idx \in 0..(Len(results_) - 1) : result_write(idx)

SpecRender == Init /\ [][NextRender]_vars

\* the semantic actions that assemble and write one declarator
NextDclr ==
  \/ \E iden \in DclrIdens : dclr_ctor(iden)
  \/ \E spec \in DclrSpecs : dclr_append(spec)
  \/ \E spec \in DclrSpecs : dclr_prepend(spec)
  \/ \E d \in DclSpecs : dcln_write(d)

SpecDclr == Init /\ [][NextDclr]_vars

\* a declaration specifier written on its own
NextDclSpec == \E d \in AllDclSpecs : dcl_spec_write(d)

SpecDclSpec == Init /\ [][NextDclSpec]_vars

\* declarations that hold the invalid tags, assembled and written
NextSentinel ==
  \/ \E iden \in DclrIdens : dclr_ctor(iden)
  \/ \E spec \in SentinelPtrs : dclr_prepend(spec)
  \/ \E d \in SentinelDclSpecs : dcln_write(d)

SpecSentinel == Init /\ [][NextSentinel]_vars

\* a pointer run built one `*` at a time, put on a declarator and written
NextPtrs ==
  \/ ptrs_ctor
  \/ \E qual \in {"qnone", "qconst"} : ptrs_append(qual)
  \/ \E iden \in DclrIdens : dclr_ctor(iden)
  \/ dclr_prepend_ptrs
  \/ \E d \in DclSpecs : dcln_write(d)

SpecPtrs == Init /\ [][NextPtrs]_vars

\* a parameter list constructed, filled, flagged and written, and single
\* parameters written
NextParams ==
  \/ \E indeterminate \in BOOLEAN : params_ctor_default(indeterminate)
  \/ \E variadic \in BOOLEAN : params_ctor(variadic)
  \/ \E param \in ParamValues : params_append(param)
  \/ \E value \in BOOLEAN : params_variadic(value)
  \/ params_write
  \/ \E param \in ParamValues : param_write(param)

SpecParams == Init /\ [][NextParams]_vars

\* parameters constructed, copied and reached through their declarators
NextOwn ==
  \/ \E spec \in ParamSpecs : param_ctor(spec)
  \/ \E spec \in ParamSpecs, d \in ParamDclrs : param_ctor_dclr(spec, d)
  \/ \E i \in 1..Len(held) : param_copy(i)
  \/ \E i \in 1..Len(held), spec \in {Ptr, Array3} : param_dclr_append(i, spec)

SpecOwn == Init /\ [][NextOwn]_vars

-----------------------------------------------------------------------------
(* Properties of the declarator operations, under SpecDclr                 *)

\* the text of the last write, when the declarator x was assembled by exactly
\* the calls `built` and then written with `int`
WrittenAs(built, text) ==
  (/\ dclr.iden = "x"
   /\ ops = built
   /\ out # <<>>
   /\ out[1].dcl_spec = SignedInt)
  => (out[1].status = "ok" /\ out[1].text = text)

\* int *x[3];  the array suffix appended to x, then the pointer run prepended
BuiltPtrArray == <<[op |-> "append", spec |-> Array3], [op |-> "prepend", spec |-> Ptr]>>

\* int (*x)[3];  the pointer run prepended to x, then the array suffix appended
BuiltParenPtrArray ==
  <<[op |-> "prepend", spec |-> Ptr], [op |-> "append", spec |-> Array3]>>

\* C1: `int *x[3];`, built by appending the array suffix to x and then
\* prepending the pointer run, is written as
\* `x: array[3] of pointer to signed int`.
C1_ArrayOfPointer == WrittenAs(BuiltPtrArray, "x: array[3] of pointer to signed int")

\* C2: `int (*x)[3];`, built by prepending the pointer run to x and then
\* appending the array suffix, is written as
\* `x: pointer to array[3] of signed int`.
C2_PointerToArray ==
  WrittenAs(BuiltParenPtrArray, "x: pointer to array[3] of signed int")

C2_Witness ==
  /\ dclr.iden = "x"
  /\ ops = BuiltParenPtrArray
  /\ out # <<>>
  /\ out[1].dcl_spec = SignedInt

-----------------------------------------------------------------------------
(* Properties of the session, under Spec                                   *)

\* the identifier of an init declarator
IdenOf(init_dclr) == init_dclr.value.iden

\* the exception the step leaves behind says `what`
Throws(what) == syntax_error' # <<>> /\ syntax_error'[1].what = what

\* C3: insert of a declarator whose identifier is already stored fails with
\* "identifier <id> redeclared" and leaves the ordered declaration list as it was.
C3_RedeclaredInsertFails ==
  [][\A d \in DclSpecs, c \in InitDclrs :
       (Insert(d, c) /\ results_contain(IdenOf(c)))
         => /\ Throws("identifier " \o IdenOf(c) \o " redeclared")
            /\ results_' = results_]_vars

C3_Witness ==
  /\ call.op = "insert"
  /\ syntax_error # <<>>
  /\ syntax_error[1].what = "identifier x redeclared"
  /\ Len(results_) = 2

\* C4: insert of a declarator with an empty identifier fails with
\* "dcln is missing identifier" and changes neither the declaration list nor
\* the identifier-to-index map.
C4_MissingIdentifierFails ==
  [][\A d \in DclSpecs, c \in InitDclrs :
       (Insert(d, c) /\ IdenOf(c) = "")
         => /\ Throws("dcln is missing identifier")
            /\ results_' = results_
            /\ result_indicies_' = result_indicies_]_vars

C4_Witness ==
  /\ call.op = "insert"
  /\ syntax_error # <<>>
  /\ syntax_error[1].what = "dcln is missing identifier"
  /\ Len(results_) = 1

\* C5: a successful insert(d, c) makes result(iden of c) the declaration (d, c),
\* and every later step of the session, successful or failing, leaves the
\* result of every stored identifier as it was.
C5_LookupReturnsInserted ==
  [][/\ \A d \in DclSpecs, c \in InitDclrs :
          (Insert(d, c) /\ syntax_error' = <<>>)
            => /\ IdenOf(c) \in DOMAIN result_indicies_'
               /\ result_in(results_', result_indicies_', IdenOf(c))
                    = cdcl_dcln(d, c.value)
     /\ \A iden \in DOMAIN result_indicies_ :
          /\ iden \in DOMAIN result_indicies_'
          /\ result_in(results_', result_indicies_', iden) = result(iden)]_vars

C5_Witness ==
  /\ Len(results_) = 2
  /\ results_contain("x")
  /\ result_indicies_["x"] = 0
  /\ result("x") = cdcl_dcln(StaticConstChar, append(cdcl_dclr("x"), Ptr))
  /\ syntax_error # <<>>

C7_ParseOwnsItsSession ==
  (pc = "idle" /\ ret # "none")
    => /\ results_ = inserted
       /\ DOMAIN result_indicies_
            = {inserted[i].dclr.iden : i \in 1..Len(inserted)}

\* the init declarators of `cs` on which insert fails in the current session:
\* empty identifier, stored identifier, or identifier of an earlier element
FailingAt(cs) ==
  {k \in 1..Len(cs) :
     \/ IdenOf(cs[k]) = ""
     \/ results_contain(IdenOf(cs[k]))
     \/ \E j \in 1..(k - 1) : IdenOf(cs[j]) = IdenOf(cs[k])}

\* the smallest element of a non-empty set of numbers
Min(S) == CHOOSE k \in S : \A j \in S : k <= j

\* declarations (d, cs[1]) .. (d, cs[n])
DclnsOf(d, cs, n) == [i \in 1..n |-> cdcl_dcln(d, cs[i].value)]

\* the index after the declarations of cs[1..n] were appended to the session
IndexedWith(cs, n) ==
  [iden \in DOMAIN result_indicies_ \cup {IdenOf(cs[i]) : i \in 1..n} |->
     IF iden \in DOMAIN result_indicies_ THEN result_indicies_[iden]
     ELSE Len(results_) + (CHOOSE i \in 1..n : IdenOf(cs[i]) = iden) - 1]

\* C8: a failing insert rolls nothing back and adds nothing: a failing single
\* insert leaves list and index as they were (what the parse inserted before
\* stays), and a failing list insert leaves exactly the declarations of the
\* declarators before the first failing one appended, none after it.
C8_FailureKeepsEarlierInserts ==
  [][/\ \A d \in DclSpecs, c \in InitDclrs :
          (Insert(d, c) /\ syntax_error' # <<>>)
            => /\ results_' = results_
               /\ result_indicies_' = result_indicies_
               /\ inserted' = inserted
     /\ \A d \in DclSpecs, cs \in InitDclrLists :
          (InsertList(d, cs) /\ syntax_error' # <<>>)
            => /\ FailingAt(cs) # {}
               /\ LET k == Min(FailingAt(cs))
                  IN  /\ results_' = results_ \o DclnsOf(d, cs, k - 1)
                      /\ result_indicies_' = IndexedWith(cs, k - 1)]_vars

C8_Witness ==
  /\ call = [op |-> "insert_list", done |-> 1]
  /\ syntax_error # <<>>
  /\ Len(inserted) = 2

\* C9: every stored declaration has a non-empty identifier and no two stored
\* declarations have the same identifier.
C9_IdentifiersNonEmptyUnique ==
  /\ \A i \in 1..Len(results_) : results_[i].dclr.iden # ""
  /\ \A i, j \in 1..Len(results_) :
       results_[i].dclr.iden = results_[j].dclr.iden => i = j

C9_Witness ==
  /\ Len(results_) = 2
  /\ syntax_error # <<>>
  /\ syntax_error[1].what = "identifier y redeclared"

\* the session after insert was called once per element of cs, in order
RECURSIVE InsertEach(_, _, _, _)
InsertEach(s, loc, d, cs) ==
  IF cs = <<>> THEN s
  ELSE InsertEach(insert(s, loc, d, Head(cs)), loc, d, Tail(cs))

\* C10: the list insert on declarators with distinct, non-empty, not yet stored
\* identifiers succeeds and appends one declaration per declarator, in list
\* order, each with the shared declaration specifier; the session is the one
\* reached by the single insert called once per element in that order.
C10_ListInsertIsRepeatedInsert ==
  [][\A d \in DclSpecs, cs \in InitDclrLists :
       (InsertList(d, cs) /\ FailingAt(cs) = {})
         => /\ syntax_error' = <<>>
            /\ results_' = results_ \o DclnsOf(d, cs, Len(cs))
            /\ result_indicies_' = IndexedWith(cs, Len(cs))
            /\ LET each == InsertEach(session, location_, d, cs)
               IN  /\ results_' = each.results_
                   /\ result_indicies_' = each.result_indicies_
                   /\ last_error_' = each.last_error_]_vars

C10_Witness ==
  /\ call = [op |-> "insert_list", done |-> 2]
  /\ syntax_error = <<>>
  /\ Len(results_) = 2
  /\ results_[1].dclr.iden # results_[2].dclr.iden
  /\ results_[1].dcl_spec = results_[2].dcl_spec

\* the init declarators on which insert fails in the current session
InsertFails(c) == c.index # 0 \/ IdenOf(c) = "" \/ results_contain(IdenOf(c))

\* the messages of insert
InsertMessages ==
  {"init_dclr only support C declarators", "dcln is missing identifier"}
    \cup {"identifier " \o iden \o " redeclared" : iden \in Idens}

\* C11: every failure of insert (unsupported init-declarator alternative,
\* missing identifier, redeclared identifier) is raised as a syntax error that
\* carries the current location of the session and a message of insert, and
\* last_error() equals that message right after the failing call, of the
\* single insert and of the list insert alike.
C11_InsertFailureIsSyntaxError ==
  [][/\ \A d \in DclSpecs, c \in InitDclrs \cup {ValuelessInitDclr} :
          (Insert(d, c) /\ InsertFails(c)) => syntax_error' # <<>>
     /\ (syntax_error = <<>> /\ syntax_error' # <<>>)
          => /\ call'.op \in {"insert", "insert_list"}
             /\ syntax_error'[1].loc = location_
             /\ syntax_error'[1].what \in InsertMessages
             /\ last_error_' = syntax_error'[1].what]_vars

C11_Witness ==
  /\ call.op = "insert"
  /\ location_ = 1
  /\ syntax_error = <<[loc |-> 1, what |-> "init_dclr only support C declarators"]>>
  /\ last_error_ = "init_dclr only support C declarators"
  /\ Len(results_) = 1

\* C12: when a parse() invocation has returned, last_error() is empty if it
\* returned success and non-empty if it returned failure; a parse that gets to
\* the grammar starts with an empty message whatever the parse before left, so
\* the message of an earlier failure is never there after a later success.
C12_LastErrorTellsOutcome ==
  [][/\ (pc' = "idle" /\ ret' # "none") => (ret' = "true" <=> last_error_' = "")
     /\ (pc = "idle" /\ pc' = "parsing") => last_error_' = ""]_vars

\* a parse has succeeded in a session that holds declarations of an earlier parse
C12_Witness ==
  /\ pc = "idle"
  /\ ret = "true"
  /\ last_error_ = ""
  /\ Len(results_) = 2
  /\ Len(inserted) = 1

\* C27: in every state of the session the identifier index and the
\* declaration list agree: the index has one entry per stored declaration,
\* index[id] = i exactly when the i-th stored declaration (counted from 0) has
\* the identifier id, so results_contain(id) says whether a stored declaration
\* has the identifier id, and n_results is the number of index entries.
C27_IndexAgreesWithList ==
  /\ Cardinality(DOMAIN result_indicies_) = Len(results_)
  /\ n_results = Cardinality(DOMAIN result_indicies_)
  /\ \A id \in Idens \cup DOMAIN result_indicies_ :
       /\ results_contain(id)
            <=> \E i \in 1..Len(results_) : results_[i].dclr.iden = id
       /\ \A i \in 0..(Len(results_) - 1) :
            (id \in DOMAIN result_indicies_ /\ result_indicies_[id] = i)
              <=> results_[i + 1].dclr.iden = id

C27_Witness ==
  /\ Len(results_) = 2
  /\ DOMAIN result_indicies_ = {"x", "y"}
  /\ result_indicies_["y"] = 0
  /\ result_indicies_["x"] = 1
  /\ pc = "idle"
  /\ ret = "false"

-----------------------------------------------------------------------------
(* Properties of the lookups, under SpecLookup                             *)

\* C13: result(iden) for an identifier that is not stored and result(idx) for
\* an index that is not below the number of stored declarations both fail
\* with an error, and neither changes the declaration list or the identifier
\* index: the failed lookup puts no entry into the index.
C13_FailedLookupChangesNothing ==
  [][/\ \A iden \in Idens :
          (Result(iden) /\ ~results_contain(iden))
            => /\ looked' = <<[iden |-> iden, status |-> "out_of_range"]>>
               /\ results_' = results_
               /\ result_indicies_' = result_indicies_
     /\ \A idx \in 0..(Len(results_) + 1) :
          (ResultAt(idx) /\ idx >= n_results)
            => /\ looked' = <<[idx |-> idx, status |-> "out_of_range"]>>
               /\ results_' = results_
               /\ result_indicies_' = result_indicies_]_vars

C13_Witness ==
  /\ looked = <<[iden |-> "y", status |-> "out_of_range"]>>
  /\ Len(results_) = 1
  /\ DOMAIN result_indicies_ = {"x"}

-----------------------------------------------------------------------------
(* Properties of the stored specifiers and the written text, under SpecDclr *)

\* int (*f)(int);  the pointer run prepended to f, then the parameter list appended
BuiltParenPtrParams ==
  <<[op |-> "prepend", spec |-> Ptr], [op |-> "append", spec |-> ParamsInt]>>

\* int *f(int);  the parameter list appended to f, then the pointer run prepended
BuiltPtrParams ==
  <<[op |-> "append", spec |-> ParamsInt], [op |-> "prepend", spec |-> Ptr]>>

\* C14: with postfix suffixes appended and prefix pointer runs prepended, the
\* declarator of `int (*f)(int);` holds <pointer run, parameter list> and the
\* declarator of `int *f(int);` holds <parameter list, pointer run>.
C14_FunctionPointerOrders ==
  /\ (dclr.iden = "f" /\ ops = BuiltParenPtrParams) => dclr.specs = <<Ptr, ParamsInt>>
  /\ (dclr.iden = "f" /\ ops = BuiltPtrParams) => dclr.specs = <<ParamsInt, Ptr>>

\* the text of the last write, when the declarator `iden` was assembled by
\* exactly the calls `built` and then written with `int`
WrittenOf(iden, built, text) ==
  (/\ dclr.iden = iden
   /\ ops = built
   /\ out # <<>>
   /\ out[1].dcl_spec = SignedInt)
  => (out[1].status = "ok" /\ out[1].text = text)

\* C15: a parameter-list suffix is written as `function (<parameters>)
\* returning` followed by exactly one space and the rest: `int f(int, char);`
\* is written `f: function (signed int, char) returning signed int` and
\* `int f(int, ...);` is written `f: function (signed int, ...) returning
\* signed int`.
C15_ParameterListPhrase ==
  /\ WrittenOf("f", <<[op |-> "append", spec |-> ParamsIntChar]>>,
               "f: function (signed int, char) returning signed int")
  /\ WrittenOf("f", <<[op |-> "append", spec |-> ParamsIntVariadic]>>,
               "f: function (signed int, ...) returning signed int")

\* the last write wrote a declarator that holds one specifier of the kind
WroteOne(kind) ==
  /\ out # <<>>
  /\ Len(dclr.specs) = 1
  /\ dclr.specs[1].kind = kind

\* what the writer puts in front of the specifiers of the declarator
IdenPart == IF dclr.iden # "" THEN dclr.iden \o ": " ELSE ""

\* the phrases of the qualifiers quals[i..], each `pointer to` with the
\* qualifier text and a space in front unless the qualifier is none, joined
\* by single spaces
RECURSIVE PointerPhrases(_, _)
PointerPhrases(quals, i) ==
  IF i > Len(quals) THEN ""
  ELSE (IF quals[i] = "qnone" THEN "" ELSE cdcl_qual_printer(quals[i]) \o " ")
         \o "pointer to"
         \o (IF i < Len(quals) THEN " " ELSE "")
         \o PointerPhrases(quals, i + 1)

\* C16: a pointer run with qualifiers q1..qn is written as n phrases in run
\* order joined by single spaces, the i-th being `pointer to` with the text of
\* qi and a space in front unless qi is none; `int *x;` is written
\* `x: pointer to signed int`.
C16_PointerRunPhrases ==
  /\ WroteOne("ptrs")
       => /\ out[1].status = "ok"
          /\ out[1].text = IdenPart \o PointerPhrases(dclr.specs[1].specs, 1)
                             \o " " \o cdcl_dcl_spec_write(out[1].dcl_spec)
  /\ WrittenOf("x", <<[op |-> "prepend", spec |-> Ptr]>>, "x: pointer to signed int")

C16_Witness ==
  /\ WroteOne("ptrs")
  /\ dclr.iden = "x"
  /\ dclr.specs[1] = PtrVolatilePtrCV
  /\ out[1].text = "x: volatile pointer to const volatile pointer to static const char"

\* C17: a declarator with an identifier and one array suffix is written
\* `<identifier>: array[N] of <declspec>` when the size N is positive and
\* `<identifier>: array[] of <declspec>` when the size is 0: `int x[3];` is
\* written `x: array[3] of signed int`.
C17_ArrayPhrase ==
  /\ (WroteOne("array") /\ dclr.iden # "")
       => /\ out[1].status = "ok"
          /\ out[1].text =
               dclr.iden \o ": array["
                 \o (IF dclr.specs[1].size > 0 THEN ToString(dclr.specs[1].size) ELSE "")
                 \o "] of " \o cdcl_dcl_spec_write(out[1].dcl_spec)
  /\ WrittenOf("x", <<[op |-> "append", spec |-> Array3]>>, "x: array[3] of signed int")
  /\ WrittenOf("x", <<[op |-> "append", spec |-> ArrayUnsized]>>,
               "x: array[] of signed int")

C17_Witness ==
  /\ WroteOne("array")
  /\ dclr.iden = "y"
  /\ dclr.specs[1] = ArrayUnsized
  /\ out[1].text = "y: array[] of static const char"

\* C18 as stated: `int x;` is written `x:  signed int`, with two spaces
\* between the colon and the declaration specifier.
C18_PlainDeclarationTwoSpaces == WrittenOf("x", <<>>, "x:  signed int")

\* C18: `int x;`, a declaration without declarator suffixes and with automatic
\* storage, is written exactly `x: signed int`: identifier, colon, one
\* separating space, then the declaration specifier without storage text.
C18_PlainDeclaration == WrittenOf("x", <<>>, "x: signed int")

C18_Witness ==
  /\ dclr = cdcl_dclr("x")
  /\ ops = <<>>
  /\ out # <<>>
  /\ out[1].dcl_spec = SignedInt

\* the text begins with a token, a run of characters without a space, that a
\* colon follows
StartsWithToken(text) ==
  \E n \in 2..Len(text) :
    /\ SubSeq(text, n, n) = ":"
    /\ \A k \in 1..(n - 1) : SubSeq(text, k, k) \notin {" ", ":"}

\* C20 as stated: every write of a declaration ends without an error, the
\* text begins with the identifier and a colon, and for a declarator without
\* identifier it begins with a placeholder token in place of the identifier.
C20_StartsWithIdentifierOrPlaceholder ==
  out # <<>>
    => /\ out[1].status = "ok"
       /\ StartsWithToken(out[1].text)
       /\ dclr.iden # ""
            => SubSeq(out[1].text, 1, Len(dclr.iden) + 1) = dclr.iden \o ":"

\* C20: every write of a declaration assembled from pointer runs with valid
\* qualifiers, arrays and parameter lists ends without an error; with an
\* identifier the text begins with the identifier and a colon; without one
\* nothing stands in for it: the text is the specifier phrases, one space and
\* the declaration specifier, and begins with no token and colon.
C20_StartsWithIdentifierIfAny ==
  out # <<>>
    => /\ out[1].status = "ok"
       /\ dclr.iden # ""
            => SubSeq(out[1].text, 1, Len(dclr.iden) + 1) = dclr.iden \o ":"
       /\ dclr.iden = ""
            => /\ ~StartsWithToken(out[1].text)
               /\ out[1].text = cdcl_dclr_write_from(dclr.specs, 1) \o " "
                                  \o cdcl_dcl_spec_write(out[1].dcl_spec)

C20_Witness ==
  /\ out # <<>>
  /\ dclr.iden = ""
  /\ dclr.specs = <<Ptr, Array3>>
  /\ out[1].text = "pointer to array[3] of signed int"

-----------------------------------------------------------------------------
(* Properties of the written declaration specifier, under SpecDclSpec      *)

\* the non-empty strings of words[i..], in order, joined by single spaces
RECURSIVE JoinWords(_, _, _)
JoinWords(words, i, first) ==
  IF i > Len(words) THEN ""
  ELSE IF words[i] = "" THEN JoinWords(words, i + 1, first)
  ELSE (IF first THEN "" ELSE " ") \o words[i] \o JoinWords(words, i + 1, FALSE)

\* the declaration specifier of the last write and its text
WroteDclSpec(dcl_spec, text) ==
  (out # <<>> /\ out[1].dcl_spec = dcl_spec) => out[1].text = text

\* C19: for every storage class, qualifier and base type other than the
\* invalid ones, a declaration specifier is written as its storage text, its
\* qualifier text, its base type text and its type identifier when it has
\* one, in this order with single spaces between them; automatic storage and
\* the qualifier none have empty text and bring no space.
C19_DclSpecText ==
  /\ cdcl_storage_printer("st_auto") = ""
  /\ cdcl_qual_printer("qnone") = ""
  /\ (/\ out # <<>>
      /\ out[1].dcl_spec.storage # "invalid"
      /\ out[1].dcl_spec.spec.qual # "invalid"
      /\ out[1].dcl_spec.spec.spec.type # "invalid")
       => out[1].text =
            JoinWords(<<cdcl_storage_printer(out[1].dcl_spec.storage),
                        cdcl_qual_printer(out[1].dcl_spec.spec.qual),
                        cdcl_type_printer(out[1].dcl_spec.spec.spec.type),
                        out[1].dcl_spec.spec.spec.iden>>, 1, TRUE)
  /\ WroteDclSpec(cdcl_dcl_spec("st_extern", cdcl_qtype_spec("qconst",
                     cdcl_type_spec("gstruct", "my_struct"))),
                  "extern const struct my_struct")
  /\ WroteDclSpec(cdcl_dcl_spec("st_auto", cdcl_qtype_spec("qconst_volatile",
                     cdcl_type_spec("ulong", ""))),
                  "const volatile unsigned long")
  /\ WroteDclSpec(cdcl_dcl_spec("st_static", cdcl_qtype_spec("qconst",
                     cdcl_type_spec("gtype", "my_struct"))),
                  "static const typedef my_struct")
  /\ WroteDclSpec(SignedInt, "signed int")

C19_Witness ==
  /\ out # <<>>
  /\ out[1].dcl_spec =
       cdcl_dcl_spec("st_auto", cdcl_qtype_spec("qnone", cdcl_type_spec("genum", "my_struct")))
  /\ out[1].text = "enum my_struct"

\* the specifiers of the calls of `ops` that are calls of `op`, in call order
SpecsOf(op) ==
  LET IsOp(o) == o.op = op
      calls == SelectSeq(ops', IsOp)
  IN  [i \in 1..Len(calls) |-> calls[i].spec]

\* a sequence back to front
Reverse(s) == [i \in 1..Len(s) |-> s[Len(s) + 1 - i]]

\* C26: on a declarator with specifiers S, append(s) gives S followed by s and
\* prepend(s) gives s followed by S, both leave the identifier and the
\* specifiers already there as they were; so after any calls the declarator
\* holds the prepended specifiers in reverse call order followed by the
\* appended specifiers in call order.
C26_AppendPrependSequence ==
  [][/\ \A spec \in DclrSpecs :
          /\ dclr_append(spec)
               => dclr' = [iden |-> dclr.iden, specs |-> dclr.specs \o <<spec>>]
          /\ dclr_prepend(spec)
               => dclr' = [iden |-> dclr.iden, specs |-> <<spec>> \o dclr.specs]
     /\ dclr'.specs = Reverse(SpecsOf("prepend")) \o SpecsOf("append")]_vars

C26_Witness ==
  /\ dclr = [iden |-> "y", specs |-> <<PtrConstPtr, Ptr, Array3>>]
  /\ ops = <<[op |-> "prepend", spec |-> Ptr], [op |-> "append", spec |-> Array3],
             [op |-> "prepend", spec |-> PtrConstPtr]>>

\* the base types that name a struct, an enum or a typedef
NamedTypes == {"gstruct", "genum", "gtype"}

\* C24: every type specifier built by the public constructors keeps the
\* base type invariant: a builtin base type has an empty identifier, and the
\* struct, enum and typedef-name base types have a non-empty identifier.
C24_TypeSpecInvariant ==
  (out # <<>> /\ out[1].dcl_spec.spec.spec.type # "invalid")
    => (out[1].dcl_spec.spec.spec.type \in NamedTypes
          <=> out[1].dcl_spec.spec.spec.iden # "")

-----------------------------------------------------------------------------
(* Properties of writing the invalid tags, under SpecSentinel              *)

\* a pointer run of the declarator holds the qualifier invalid
InvalidInRun ==
  \E i \in 1..Len(dclr.specs) :
    /\ dclr.specs[i].kind = "ptrs"
    /\ \E j \in 1..Len(dclr.specs[i].specs) : dclr.specs[i].specs[j] = "invalid"

\* the declaration specifier of the last write holds an invalid tag
InvalidInDclSpec ==
  \/ out[1].dcl_spec.storage = "invalid"
  \/ out[1].dcl_spec.spec.qual = "invalid"
  \/ out[1].dcl_spec.spec.spec.type = "invalid"

-----------------------------------------------------------------------------
(* Properties of writing stored declarations, under SpecRender             *)

-----------------------------------------------------------------------------
(* Properties of the parameter objects, under SpecOwn                      *)

\* C23: every parameter owns its declarator alone: whatever was constructed
\* and copied, no cdcl_dclr object is held by two cdcl_param_spec objects, so
\* nothing done through the declarator of one parameter shows in another.
C23_ParameterOwnsItsDeclarator ==
  \A i, j \in 1..Len(held) :
    (i # j /\ held[i].dclr # <<>>) => held[i].dclr # held[j].dclr

-----------------------------------------------------------------------------
(* Properties of the built pointer runs, under SpecPtrs                    *)

\* C25: every pointer run that is a specifier of a declarator holds at least
\* one qualifier; no constructor and append calls put an empty run on a
\* declarator.
C25_PointerRunNonEmpty ==
  \A i \in 1..Len(dclr.specs) :
    dclr.specs[i].kind = "ptrs" => Len(dclr.specs[i].specs) >= 1

\* C28: the run of `int *const *x;`, built by ptrs.append(const) and then
\* ptrs.append(none), the qualifiers of the `*` from left to right, and put
\* on x, is written with the level nearest x first:
\* `x: pointer to const pointer to signed int`.
C28_PointerLevelsInReadingOrder ==
  (/\ dclr.iden = "x"
   /\ ptrs # <<>>
   /\ run_quals = <<"qconst", "qnone">>
   /\ ops = <<[op |-> "prepend", spec |-> ptrs[1]]>>
   /\ out # <<>>
   /\ out[1].dcl_spec = SignedInt)
  => out[1].text = "x: pointer to const pointer to signed int"

-----------------------------------------------------------------------------
(* Properties of parameters and parameter lists, under SpecParams          *)

\* C29: a parameter with a declarator is written as the phrase of the
\* declarator, exactly one space, and the qualified type, the abstract
\* `int *` as `pointer to signed int`; a parameter without a declarator is
\* written as its qualified type alone.
C29_ParameterText ==
  (out # <<>> /\ "param" \in DOMAIN out[1])
    => /\ out[1].param.dclr = <<>>
            => out[1].text = cdcl_qtype_spec_write(out[1].param.spec)
       /\ out[1].param.dclr # <<>>
            => out[1].text = cdcl_dclr_write(out[1].param.dclr[1]) \o " "
                               \o cdcl_qtype_spec_write(out[1].param.spec)
       /\ out[1].param
            = cdcl_param_spec(cdcl_qtype_spec("qnone", cdcl_type_spec("sint", "")),
                              <<prepend(cdcl_dclr(""), Ptr)>>)
            => out[1].text = "pointer to signed int"

\* the text ends with `tail`
EndsWith(text, tail) ==
  /\ Len(text) >= Len(tail)
  /\ SubSeq(text, Len(text) - Len(tail) + 1, Len(text)) = tail

\* C30: a default-constructed parameter list is empty and not variadic; the
\* flag changes only in variadic(bool), which returns the value the flag had;
\* and the list is written with the trailing `, ...` only if a constructor
\* argument or variadic(bool) set the flag to true.
C30_VariadicOnlyWhenSet ==
  [][/\ \A indeterminate \in BOOLEAN :
          params_ctor_default(indeterminate)
            => params' = <<[specs |-> <<>>, variadic |-> FALSE]>>
     /\ \A value \in BOOLEAN :
          params_variadic(value)
            => /\ old_value' = BoolText(params[1].variadic)
               /\ params'[1].variadic = value
     /\ \A param \in ParamValues :
          params_append(param) => params'[1].variadic = params[1].variadic
     /\ (params_write /\ EndsWith(out'[1].text, ", ...) returning ")) => flagged]_vars

====
